---- MODULE Spec2Model ----
(***************************************************************************)
(* Model of simple-qiniu-upload (src/src/index.js): the bounded upload     *)
(* pool of Uploader.start, the per-file upload task, the result report,    *)
(* and the enumeration step that feeds them.                               *)
(*                                                                         *)
(* JavaScript strings are modelled as tuples of one-character strings, so  *)
(* that prefix stripping and message formatting are computed, not assumed. *)
(* Every promise reaction (then handler, catch handler, run) is one step;  *)
(* the steps of different workers interleave freely, which includes every  *)
(* order the event loop can produce.                                       *)
(***************************************************************************)
EXTENDS Integers, Sequences, FiniteSets, TLC

\* ------------------------------------------------------------------ bounds
MaxFiles == 3

\* --------------------------------------------------------------- JS values
Undefined == <<"undefined">>
Null == <<"null">>
JsFalse == <<"false">>

\* ------------------------------------------------------------ input spaces
\* config.cwd and config.base
Cwd == <<"/", "w">>
BaseDir == <<"d">>

\* the files glob can report, in the (sorted) order glob reports them
AllFiles ==
  << <<"/", "w", "/", "d", "/", "a">>,
     <<"/", "w", "/", "d", "/", "b">>,
     <<"/", "w", "/", "d", "/", "s", "/", "c">>,
     <<"/", "w", "/", "d", "/", "s", "/", "e">> >>

\* DEFAULTS.bucket, and another bucket name
DefaultBucket == <<"s", "t", "a", "t", "i", "c">>
OtherBucket == <<"B">>

\* config.parallelCount values explored
ParallelCounts == {0, 1, 2, 8}

\* config.output values explored: the default file name, and a falsy one
OutputNames == { <<"o", ".", "j", "s", "o", "n">>, <<>> }

\* answers the remote can give to one putFile call:
\* (respErr.message or Null, respInfo.statusCode, respInfo.data.error)
Responses ==
  { [respErr |-> <<"t", "i", "m", "e", "o", "u", "t">>, statusCode |-> 0, dataError |-> <<>>],
    [respErr |-> Null, statusCode |-> 200, dataError |-> <<>>],
    [respErr |-> Null, statusCode |-> 599, dataError |-> <<>>] }

\* errors the glob engine can report
GlobErrors == { <<"E", "A", "C", "C", "E", "S">> }

\* errors fs.writeFile can report to its callback
WriteErrors == { <<"E", "P", "E", "R", "M">> }

\* ------------------------------------------------------------ string tools
Truthy(s) == s # <<>> /\ s # Undefined /\ s # Null /\ s # JsFalse

IsPrefixAt(s, pat, i) ==
  /\ i + Len(pat) - 1 <= Len(s)
  /\ \A j \in 1..Len(pat) : s[i + j - 1] = pat[j]

\* String.prototype.replace(pattern: string, replacement): first occurrence only
StrReplace(s, pat, rep) ==
  LET hits == { i \in 1..(Len(s) + 1) : IsPrefixAt(s, pat, i) }
  IN IF hits = {} THEN s
     ELSE LET i == CHOOSE h \in hits : \A g \in hits : h <= g
          IN SubSeq(s, 1, i - 1) \o rep \o SubSeq(s, i + Len(pat), Len(s))

\* replace(/\\/g, '/')
SlashNormalize(s) == [i \in 1..Len(s) |-> IF s[i] = "\\" THEN "/" ELSE s[i]]

RECURSIVE StripTrailingSlash(_)
StripTrailingSlash(s) ==
  IF Len(s) > 1 /\ s[Len(s)] = "/" THEN StripTrailingSlash(SubSeq(s, 1, Len(s) - 1)) ELSE s

\* path.resolve(cwd, p) for paths without "." and ".." segments
PathResolve(cwd, p) ==
  IF p # <<>> /\ p[1] = "/" THEN StripTrailingSlash(p)
  ELSE IF p = <<>> THEN StripTrailingSlash(cwd)
  ELSE StripTrailingSlash(StripTrailingSlash(cwd) \o <<"/">> \o p)

\* resolveBase() for a given config.cwd and config.base
ResolveBaseOf(cwd, base) == SlashNormalize(PathResolve(cwd, base)) \o <<"/">>

\* file.replace(base, '')
KeyMap(file, base) == StrReplace(file, base, <<>>)

resolveBase == ResolveBaseOf(Cwd, BaseDir)

\* key derivation of _createUploadTask
KeyOf(file) == KeyMap(file, resolveBase)

Digits == <<"0", "1", "2", "3", "4", "5", "6", "7", "8", "9">>

RECURSIVE NumToStr(_)
NumToStr(n) == IF n < 10 THEN <<Digits[n + 1]>> ELSE NumToStr(n \div 10) \o <<Digits[(n % 10) + 1]>>

\* the status code alone, the "code: " prefix forgotten
CodeMsgBare(statusCode) == NumToStr(statusCode)

\* `code: ${respInfo.statusCode}`
CodeMsg(statusCode) == <<"c", "o", "d", "e", ":", " ">> \o NumToStr(statusCode)

\* msg of the rejection reason built by the putFile callback for a response
\* that is not a success
FailMsg(resp) ==
  IF resp.respErr # Null THEN resp.respErr
  ELSE IF Truthy(resp.dataError) THEN resp.dataError
  ELSE CodeMsg(resp.statusCode)

\* every 2xx status taken for a success
IsUploadOkAny2xx(resp) == resp.respErr = Null /\ resp.statusCode \div 100 = 2

\* the putFile callback resolves the task's promise exactly in this case
IsUploadOk(resp) == resp.respErr = Null /\ resp.statusCode = 200

\* JSON.stringify of one entry: properties whose value is undefined are left out
JsonEntry(e) == [f \in { g \in DOMAIN e : e[g] # Undefined } |-> e[f]]

\* JSON.stringify(results, null, '\t') as a value: both lists, entries in order
JSONStringify(r) ==
  [success |-> [i \in 1..Len(r.success) |-> JsonEntry(r.success[i])],
   fail |-> [i \in 1..Len(r.fail) |-> JsonEntry(r.fail[i])]]

\* ------------------------------------------------------------------- state
VARIABLES
  config,        \* this.config: parallelCount, output, bucket, overrides
  phase,         \* where start() is: "constructed", "enumerating", "running", "aborted"
  promise,       \* the promise start() returned: "none", "pending", "resolved", "rejected"
  rejection,     \* the error start() rejected with, or Null
  enumerated,    \* the file list the glob callback delivered
  targetFiles,   \* the queue the workers pop from
  ended,         \* one entry per worker that found the queue empty
  results,       \* [success, fail]: the outcome lists
  stats,         \* [total, uploading, success, fail]
  task,          \* one entry per run() chain spawned: its position and current file
  puts,          \* the putFile calls issued so far, in order, each with the
                 \* answer its callback got (<<>> while unanswered)
  endCalls,      \* how many times end() ran
  writes,        \* the fs.writeFile calls issued so far: the data of each
  writeCb,       \* the writeFile callback: "none", "pending", "ok", "failed"
  saveErrLogged, \* the write error reached the logger
  uncaught       \* an exception left a callback and reached the event loop

\* the list-and-delete flow (fetchUploadedFiles, deleteFiles)
VARIABLES
  fetchPc,       \* "idle", "returned", "listing", "page", "failed", "rejected",
                 \* "listed", "deleting", "deleted"
  listCalls,     \* the listPrefix calls issued so far: [prefix, marker, limit]
  listAnswers,   \* the answers the listPrefix callback got, in order
  fileKeys,      \* the `files` array: keys collected, later spliced by del()
  deleteArg,     \* <<>>, or <<the array deleteFiles was called with>>
  batches,       \* the batch calls issued so far: the keys of each
  batchAnswers,  \* the answers the batch callback got, in order
  listErrLogged, \* how often console.log(err) ran in _fetch
  delErrLogged   \* a batch error reached the logger

\* the application of a pure function: which one, its input, its result
VARIABLES fnName, fnIn, fnOut

poolVars == <<config, phase, promise, rejection, enumerated, targetFiles, ended, results,
              stats, task, puts, endCalls, writes, writeCb, saveErrLogged>>

fetchVars == <<fetchPc, listCalls, listAnswers, fileKeys, deleteArg, batches, batchAnswers,
               listErrLogged, delErrLogged>>

fnVars == <<fnName, fnIn, fnOut>>

\* what the upload pool never touches
aux == <<fetchVars, fnVars>>

vars == <<config, phase, promise, rejection, enumerated, targetFiles, ended, results,
          stats, task, puts, endCalls, writes, writeCb, saveErrLogged, uncaught,
          fetchVars, fnVars>>

\* the part of the state run() and end() work on, as one record
Pool ==
  [targetFiles |-> targetFiles, ended |-> ended, results |-> results, stats |-> stats,
   task |-> task, puts |-> puts, promise |-> promise, endCalls |-> endCalls,
   writes |-> writes, writeCb |-> writeCb]

SetPool(s) ==
  /\ targetFiles' = s.targetFiles
  /\ ended' = s.ended
  /\ results' = s.results
  /\ stats' = s.stats
  /\ task' = s.task
  /\ puts' = s.puts
  /\ promise' = s.promise
  /\ endCalls' = s.endCalls
  /\ writes' = s.writes
  /\ writeCb' = s.writeCb

IdleTask == [pc |-> "ended", file |-> Undefined, key |-> Undefined, msg |-> Undefined, put |-> 0]

SetTask(s, i, t) ==
  IF i = Len(s.task) + 1 THEN Append(s.task, t) ELSE [s.task EXCEPT ![i] = t]

\* ------------------------------------------------------------------ start()
\* end() that writes whatever config.output is
EndAlwaysWrites(s) ==
  [s EXCEPT !.endCalls = @ + 1,
            !.writes = Append(@, JSONStringify(s.results)),
            !.writeCb = "pending"]

\* end(): issue the report write when config.output is truthy
End(s) ==
  IF Truthy(config.output)
  THEN [s EXCEPT !.endCalls = @ + 1,
                 !.writes = Append(@, JSONStringify(s.results)),
                 !.writeCb = "pending"]
  ELSE [s EXCEPT !.endCalls = @ + 1]

\* end() called, resolve forgotten
ResolveForgotten(s) == s

\* resolve(v) of the promise start() returns: only a pending promise changes
Resolve(s) == IF s.promise = "pending" THEN [s EXCEPT !.promise = "resolved"] ELSE s

\* done as soon as one worker has ended
PoolDoneFirst(endedList, parallelCount) == Len(endedList) >= 1

\* the pool counts as done while one worker is still out
PoolDoneButOne(endedList, parallelCount) == Len(endedList) = parallelCount - 1

\* ended.length === this.config.parallelCount
PoolDone(endedList, parallelCount) == Len(endedList) = parallelCount

\* targetFiles.pop(): the last element, and the list without it
Pop(files) ==
  IF files = <<>> THEN [file |-> Undefined, rest |-> <<>>]
  ELSE [file |-> files[Len(files)], rest |-> SubSeq(files, 1, Len(files) - 1)]

\* _createUploadTask(file) up to the putFile call: derive the key, issue the put
\* a token whose insertOnly is the wrong way round
BuildUploadTokenInverted(key) ==
  [scope |-> config.bucket \o <<":">> \o key,
   expires |-> 7200,
   insertOnly |-> IF config.overrides THEN 1 ELSE 0]

\* buildUploadToken(key): the put policy the token is signed for
BuildUploadToken(key) ==
  [scope |-> config.bucket \o <<":">> \o key,
   expires |-> 7200,
   insertOnly |-> IF config.overrides THEN 0 ELSE 1]

\* _createUploadTask(file) called by chain i: derive the key, issue putFile
CreateUploadTask(s, i, file) ==
  LET key == KeyOf(file)
  IN [s EXCEPT !.puts = Append(@, [token |-> BuildUploadToken(key), file |-> file,
                                   key |-> key, slot |-> i, resp |-> <<>>]),
               !.task = SetTask(s, i, [pc |-> "uploading", file |-> file, key |-> key,
                                       msg |-> Undefined, put |-> Len(s.puts) + 1])]

\* run() of chain i: pop a file; end the chain on an empty queue, else upload
Run(s, i) ==
  LET popped == Pop(s.targetFiles)
      file == popped.file
      s1 == [s EXCEPT !.targetFiles = popped.rest]
  IN IF ~Truthy(file)
     THEN LET s2 == [s1 EXCEPT !.ended = Append(@, 1),
                               !.task = SetTask(s1, i, IdleTask)]
          IN IF PoolDone(s2.ended, config.parallelCount) THEN Resolve(End(s2)) ELSE s2
     ELSE CreateUploadTask([s1 EXCEPT !.stats.uploading = @ + 1], i, file)

\* a spawn loop that always starts at least one worker
SpawnCountAtLeastOne(parallelCount) == IF parallelCount = 0 THEN 1 ELSE parallelCount

\* a spawn loop that starts one worker fewer when there are several
SpawnCountOneLess(parallelCount) == IF parallelCount > 1 THEN parallelCount - 1 ELSE parallelCount

\* a spawn loop that runs once too often (parallelCount-- >= 0)
SpawnCountPlusOne(parallelCount) == parallelCount + 1

\* how many times the spawn loop `while (parallelCount--) run()` calls run()
SpawnCount(parallelCount) == parallelCount

RECURSIVE Spawn(_, _)
Spawn(s, n) == IF n = 0 THEN s ELSE Spawn(Run(s, Len(s.task) + 1), n - 1)

\* the lists glob can deliver: the first n of AllFiles, for every n up to MaxFiles
FileLists == { SubSeq(AllFiles, 1, n) : n \in 0..MaxFiles }

TypeOK ==
  /\ config.parallelCount \in ParallelCounts
  /\ config.output \in OutputNames
  /\ phase \in {"constructed", "enumerating", "running", "aborted"}
  /\ promise \in {"none", "pending", "resolved", "rejected"}
  /\ stats.uploading \in Int

\* nothing of the list-and-delete flow has run
FetchIdle ==
  /\ fetchPc = "idle"
  /\ listCalls = <<>>
  /\ listAnswers = <<>>
  /\ fileKeys = <<>>
  /\ deleteArg = <<>>
  /\ batches = <<>>
  /\ batchAnswers = <<>>
  /\ listErrLogged = 0
  /\ delErrLogged = FALSE

\* no pure function is being applied
FnIdle == fnName = "none" /\ fnIn = <<>> /\ fnOut = <<>>

\* a constructed Uploader whose configuration is one of cfgs; start() not called
PoolInit(cfgs) ==
  /\ config \in cfgs
  /\ phase = "constructed"
  /\ promise = "none"
  /\ rejection = Null
  /\ enumerated = <<>>
  /\ targetFiles = <<>>
  /\ ended = <<>>
  /\ results = [success |-> <<>>, fail |-> <<>>]
  /\ stats = [total |-> 0, uploading |-> 0, success |-> 0, fail |-> 0]
  /\ task = <<>>
  /\ puts = <<>>
  /\ endCalls = 0
  /\ writes = <<>>
  /\ writeCb = "none"
  /\ saveErrLogged = FALSE
  /\ uncaught = FALSE

Configs ==
  [parallelCount : ParallelCounts, output : OutputNames,
   bucket : {DefaultBucket}, overrides : {FALSE}]

Init == PoolInit(Configs) /\ FetchIdle /\ FnIdle

\* start() is called: getWaitingUploadFiles() starts the glob, start() awaits it
Start ==
  /\ phase = "constructed"
  /\ phase' = "enumerating"
  /\ promise' = "pending"
  /\ UNCHANGED <<config, rejection, enumerated, targetFiles, ended, results, stats, task,
                 puts, endCalls, writes, writeCb, saveErrLogged, uncaught>>
  /\ UNCHANGED aux

\* the glob callback delivers the files: start() builds its state and spawns
\* parallelCount run() chains, all within the same turn
GlobDone(files) ==
  /\ phase = "enumerating"
  /\ phase' = "running"
  /\ enumerated' = files
  /\ SetPool(Spawn([Pool EXCEPT !.targetFiles = files,
                                !.ended = <<>>,
                                !.results = [success |-> <<>>, fail |-> <<>>],
                                !.stats = [total |-> Len(files), uploading |-> 0,
                                           success |-> 0, fail |-> 0]],
                   SpawnCount(config.parallelCount)))
  /\ UNCHANGED <<config, rejection, saveErrLogged, uncaught>>
  /\ UNCHANGED aux

\* the error is logged but getWaitingUploadFiles never rejects
GlobFailNoReject(err) ==
  /\ phase = "enumerating"
  /\ phase' = "aborted"
  /\ rejection' = err
  /\ UNCHANGED <<config, promise, enumerated, targetFiles, ended, results, stats, task, puts,
                 endCalls, writes, writeCb, saveErrLogged, uncaught>>
  /\ UNCHANGED aux

\* the glob callback reports an error: getWaitingUploadFiles rejects, and the
\* await in start() rethrows, so start() rejects with it
GlobFail(err) ==
  /\ phase = "enumerating"
  /\ phase' = "aborted"
  /\ promise' = "rejected"
  /\ rejection' = err
  /\ UNCHANGED <<config, enumerated, targetFiles, ended, results, stats, task, puts,
                 endCalls, writes, writeCb, saveErrLogged, uncaught>>
  /\ UNCHANGED aux

\* the putFile callback of chain i runs with the remote's answer: it resolves
\* or rejects the task's promise
PutCallback(i, resp) ==
  /\ phase = "running" /\ ~uncaught
  /\ task[i].pc = "uploading"
  /\ task' = [task EXCEPT ![i] =
                IF IsUploadOk(resp) THEN [@ EXCEPT !.pc = "fulfilled"]
                ELSE [@ EXCEPT !.pc = "rejected", !.msg = FailMsg(resp)]]
  /\ puts' = [puts EXCEPT ![task[i].put].resp = <<resp>>]
  /\ UNCHANGED <<config, phase, promise, rejection, enumerated, targetFiles, ended,
                 results, stats, endCalls, writes, writeCb, saveErrLogged, uncaught>>
  /\ UNCHANGED aux

\* a then handler that forgets stats.uploading--
ThenHandlerNoDecrement(i) ==
  /\ phase = "running" /\ ~uncaught
  /\ task[i].pc = "fulfilled"
  /\ stats' = [stats EXCEPT !.success = @ + 1]
  /\ results' = [results EXCEPT !.success =
                   Append(@, [file |-> task[i].file, key |-> task[i].key, skipped |-> JsFalse])]
  /\ task' = [task EXCEPT ![i].pc = "settled"]
  /\ UNCHANGED <<config, phase, promise, rejection, enumerated, targetFiles, ended,
                 puts, endCalls, writes, writeCb, saveErrLogged, uncaught>>
  /\ UNCHANGED aux

\* .then(({ key }) => ...): record the success
ThenHandler(i) ==
  /\ phase = "running" /\ ~uncaught
  /\ task[i].pc = "fulfilled"
  /\ stats' = [stats EXCEPT !.uploading = @ - 1, !.success = @ + 1]
  /\ results' = [results EXCEPT !.success =
                   Append(@, [file |-> task[i].file, key |-> task[i].key, skipped |-> JsFalse])]
  /\ task' = [task EXCEPT ![i].pc = "settled"]
  /\ UNCHANGED <<config, phase, promise, rejection, enumerated, targetFiles, ended,
                 puts, endCalls, writes, writeCb, saveErrLogged, uncaught>>
  /\ UNCHANGED aux

\* a catch handler that counts the failure but does not push the entry
CatchHandlerNoRecord(i) ==
  /\ phase = "running" /\ ~uncaught
  /\ task[i].pc = "rejected"
  /\ stats' = [stats EXCEPT !.uploading = @ - 1, !.fail = @ + 1]
  /\ task' = [task EXCEPT ![i].pc = "settled"]
  /\ UNCHANGED <<config, phase, promise, rejection, enumerated, targetFiles, ended, results,
                 puts, endCalls, writes, writeCb, saveErrLogged, uncaught>>
  /\ UNCHANGED aux

\* a catch handler that puts the failed file back on the queue
CatchHandlerRequeue(i) ==
  /\ phase = "running" /\ ~uncaught
  /\ task[i].pc = "rejected"
  /\ stats' = [stats EXCEPT !.uploading = @ - 1, !.fail = @ + 1]
  /\ results' = [results EXCEPT !.fail =
                   Append(@, [file |-> task[i].file, key |-> task[i].key, msg |-> task[i].msg])]
  /\ targetFiles' = Append(targetFiles, task[i].file)
  /\ task' = [task EXCEPT ![i].pc = "settled"]
  /\ UNCHANGED <<config, phase, promise, rejection, enumerated, ended,
                 puts, endCalls, writes, writeCb, saveErrLogged, uncaught>>
  /\ UNCHANGED aux

\* a catch handler that records the failure and rethrows: .then(run) is skipped
CatchHandlerRethrow(i) ==
  /\ phase = "running" /\ ~uncaught
  /\ task[i].pc = "rejected"
  /\ stats' = [stats EXCEPT !.uploading = @ - 1, !.fail = @ + 1]
  /\ results' = [results EXCEPT !.fail =
                   Append(@, [file |-> task[i].file, key |-> task[i].key, msg |-> task[i].msg])]
  /\ task' = [task EXCEPT ![i].pc = "dead"]
  /\ UNCHANGED <<config, phase, promise, rejection, enumerated, targetFiles, ended,
                 puts, endCalls, writes, writeCb, saveErrLogged, uncaught>>
  /\ UNCHANGED aux

\* .catch(({ key, msg, stack }) => ...): record the failure
CatchHandler(i) ==
  /\ phase = "running" /\ ~uncaught
  /\ task[i].pc = "rejected"
  /\ stats' = [stats EXCEPT !.uploading = @ - 1, !.fail = @ + 1]
  /\ results' = [results EXCEPT !.fail =
                   Append(@, [file |-> task[i].file, key |-> task[i].key, msg |-> task[i].msg])]
  /\ task' = [task EXCEPT ![i].pc = "settled"]
  /\ UNCHANGED <<config, phase, promise, rejection, enumerated, targetFiles, ended,
                 puts, endCalls, writes, writeCb, saveErrLogged, uncaught>>
  /\ UNCHANGED aux

\* .then(run): the chain's next run()
RunNext(i) ==
  /\ phase = "running" /\ ~uncaught
  /\ task[i].pc = "settled"
  /\ SetPool(Run(Pool, i))
  /\ UNCHANGED <<config, phase, rejection, enumerated, saveErrLogged, uncaught>>
  /\ UNCHANGED aux

\* `this` inside the writeFile callback: a plain function in class (strict)
\* code, called by fs without a receiver
ThisInWriteCallback == Undefined

\* the fs.writeFile callback: on an error it evaluates this.log(...)
WriteCallback(err) ==
  /\ writeCb = "pending" /\ ~uncaught
  /\ writeCb' = IF err = Null THEN "ok" ELSE "failed"
  /\ IF err = Null
     THEN UNCHANGED <<saveErrLogged, uncaught>>
     ELSE IF ThisInWriteCallback = Undefined
          THEN uncaught' = TRUE /\ UNCHANGED saveErrLogged
          ELSE saveErrLogged' = TRUE /\ UNCHANGED uncaught
  /\ UNCHANGED <<config, phase, promise, rejection, enumerated, targetFiles, ended,
                 results, stats, task, puts, endCalls, writes>>
  /\ UNCHANGED aux

\* one step of the pool: an answer arrives or a promise reaction runs
PoolStep ==
  \/ \E i \in DOMAIN task, resp \in Responses : PutCallback(i, resp)
  \/ \E i \in DOMAIN task : ThenHandler(i) \/ CatchHandler(i) \/ RunNext(i)

Next ==
  \/ Start
  \/ \E err \in GlobErrors : GlobFail(err)
  \/ \E files \in FileLists : GlobDone(files)
  \/ \E i \in DOMAIN task, resp \in Responses : PutCallback(i, resp)
  \/ \E i \in DOMAIN task : ThenHandler(i)
  \/ \E i \in DOMAIN task : CatchHandler(i)
  \/ \E i \in DOMAIN task : RunNext(i)
  \/ \E err \in WriteErrors \cup {Null} : WriteCallback(err)

Spec == Init /\ [][Next]_vars

\* every issued upload call is eventually answered, and every queued promise
\* reaction eventually runs
LiveSpec ==
  /\ Spec
  /\ WF_vars(\E i \in DOMAIN task, resp \in Responses : PutCallback(i, resp))
  /\ WF_vars(\E i \in DOMAIN task : ThenHandler(i) \/ CatchHandler(i) \/ RunNext(i))

\* ------------------------------------------------- fetchUploadedFiles, deleteFiles
MaxPages == 3
MaxKeys == 250

\* `limit = 50`, the default page size asked for
ListLimit == 50

\* files.splice(0, 100)
BatchSize == 100

\* the prefix argument: missing, empty, or a prefix
Prefixes == { Undefined, <<>>, <<"p", "/">> }

\* the continuation marker the remote hands out with its j-th answer
Marker(j) == <<"m">> \o NumToStr(j)

\* k keys the remote has not listed before, c being listed already
KeysFrom(c, k) == [i \in 1..k |-> c + i]

\* how many items one page may hold
PageSizes == {0, 1, ListLimit}

\* the answers the remote can give to the j-th listPrefix call, c keys being
\* listed already: (err, respBody {items, marker}, respInfo or undefined)
ListResponses(j, c) ==
  { [err |-> <<"E">>, hasInfo |-> h, statusCode |-> 0, items |-> <<>>, marker |-> <<>>] :
      h \in BOOLEAN }
  \cup { [err |-> Null, hasInfo |-> TRUE, statusCode |-> 599, items |-> <<>>, marker |-> <<>>] }
  \cup { [err |-> Null, hasInfo |-> TRUE, statusCode |-> 200, items |-> KeysFrom(c, k), marker |-> m] :
           k \in PageSizes, m \in {<<>>} \cup (IF j < MaxPages THEN {Marker(j)} ELSE {}) }

\* the answers the remote can give to one batch call: (err, respInfo.statusCode)
BatchAnswers ==
  { [err |-> <<"E">>, statusCode |-> 0],
    [err |-> Null, statusCode |-> 200],
    [err |-> Null, statusCode |-> 298],
    [err |-> Null, statusCode |-> 599] }

\* the listPrefix call _fetch issues for run({ marker })
ListCall(prefix, marker) == [prefix |-> prefix, marker |-> marker, limit |-> ListLimit]

\* fetchUploadedFiles without `if (!prefix) return`
FetchUploadedFilesNoGuard(prefix) ==
  /\ fetchPc = "idle" /\ ~uncaught
  /\ fetchPc' = "listing"
  /\ fileKeys' = <<>>
  /\ listCalls' = Append(listCalls, ListCall(prefix, <<>>))
  /\ UNCHANGED <<listAnswers, deleteArg, batches, batchAnswers, listErrLogged, delErrLogged>>
  /\ UNCHANGED <<poolVars, uncaught, fnVars>>

\* fetchUploadedFiles({ prefix }): return at once without a prefix, else start
\* the first run() with the empty marker
FetchUploadedFiles(prefix) ==
  /\ fetchPc = "idle" /\ ~uncaught
  /\ IF ~Truthy(prefix)
     THEN fetchPc' = "returned" /\ UNCHANGED <<listCalls, fileKeys>>
     ELSE /\ fetchPc' = "listing"
          /\ fileKeys' = <<>>
          /\ listCalls' = Append(listCalls, ListCall(prefix, <<>>))
  /\ UNCHANGED <<listAnswers, deleteArg, batches, batchAnswers, listErrLogged, delErrLogged>>
  /\ UNCHANGED <<poolVars, uncaught, fnVars>>

\* the listPrefix callback of _fetch: on err it logs and rejects, and then
\* still reads respInfo.statusCode
ListCallback(resp) ==
  /\ fetchPc = "listing" /\ ~uncaught
  /\ listAnswers' = Append(listAnswers, resp)
  /\ listErrLogged' = IF resp.err # Null THEN listErrLogged + 1 ELSE listErrLogged
  /\ uncaught' = (resp.err # Null /\ ~resp.hasInfo)
  /\ fetchPc' = IF resp.err = Null /\ resp.statusCode = 200 THEN "page" ELSE "failed"
  /\ UNCHANGED <<listCalls, fileKeys, deleteArg, batches, batchAnswers, delErrLogged>>
  /\ UNCHANGED <<poolVars, fnVars>>

\* a then handler that goes on with the marker of the call just answered
PageHandlerStaleMarker ==
  /\ fetchPc = "page" /\ ~uncaught
  /\ LET respBody == listAnswers[Len(listAnswers)]
     IN /\ fileKeys' = fileKeys \o respBody.items
        /\ IF Truthy(respBody.marker)
           THEN /\ listCalls' = Append(listCalls,
                                       ListCall(listCalls[Len(listCalls)].prefix,
                                                listCalls[Len(listCalls)].marker))
                /\ fetchPc' = "listing"
           ELSE /\ fetchPc' = "listed"
                /\ UNCHANGED listCalls
  /\ UNCHANGED <<listAnswers, deleteArg, batches, batchAnswers, listErrLogged, delErrLogged>>
  /\ UNCHANGED <<poolVars, uncaught, fnVars>>

\* a then handler that keeps only the keys of the page just answered
PageHandlerOverwrite ==
  /\ fetchPc = "page" /\ ~uncaught
  /\ LET respBody == listAnswers[Len(listAnswers)]
     IN /\ fileKeys' = respBody.items
        /\ IF Truthy(respBody.marker)
           THEN /\ listCalls' = Append(listCalls,
                                       ListCall(listCalls[Len(listCalls)].prefix, respBody.marker))
                /\ fetchPc' = "listing"
           ELSE /\ fetchPc' = "listed"
                /\ UNCHANGED listCalls
  /\ UNCHANGED <<listAnswers, deleteArg, batches, batchAnswers, listErrLogged, delErrLogged>>
  /\ UNCHANGED <<poolVars, uncaught, fnVars>>

\* .then(respBody => ...): collect the page's keys; go on with the returned
\* marker, or resolve when it is empty
PageHandler ==
  /\ fetchPc = "page" /\ ~uncaught
  /\ LET respBody == listAnswers[Len(listAnswers)]
     IN /\ fileKeys' = fileKeys \o respBody.items
        /\ IF Truthy(respBody.marker)
           THEN /\ listCalls' = Append(listCalls,
                                       ListCall(listCalls[Len(listCalls)].prefix, respBody.marker))
                /\ fetchPc' = "listing"
           ELSE /\ fetchPc' = "listed"
                /\ UNCHANGED listCalls
  /\ UNCHANGED <<listAnswers, deleteArg, batches, batchAnswers, listErrLogged, delErrLogged>>
  /\ UNCHANGED <<poolVars, uncaught, fnVars>>

\* a catch that asks for the failed page again instead of rejecting
ListCatchRetry ==
  /\ fetchPc = "failed" /\ ~uncaught
  /\ fetchPc' = "listing"
  /\ listCalls' = Append(listCalls, listCalls[Len(listCalls)])
  /\ UNCHANGED <<listAnswers, fileKeys, deleteArg, batches, batchAnswers,
                 listErrLogged, delErrLogged>>
  /\ UNCHANGED <<poolVars, uncaught, fnVars>>

\* .catch(reject): a failed list call rejects the promise of the whole listing
ListCatch ==
  /\ fetchPc = "failed" /\ ~uncaught
  /\ fetchPc' = "rejected"
  /\ UNCHANGED <<listCalls, listAnswers, fileKeys, deleteArg, batches, batchAnswers,
                 listErrLogged, delErrLogged>>
  /\ UNCHANGED <<poolVars, uncaught, fnVars>>

\* splice(0, 101): one key too many per batch
SpliceTakenTooMany(keys) ==
  SubSeq(keys, 1, IF Len(keys) < BatchSize + 1 THEN Len(keys) ELSE BatchSize + 1)

\* files.splice(0, 100): the keys taken
SpliceTaken(keys) == SubSeq(keys, 1, IF Len(keys) < BatchSize THEN Len(keys) ELSE BatchSize)

\* files.splice(0, 100): the keys left in the array
SpliceLeft(keys) == SubSeq(keys, Len(SpliceTaken(keys)) + 1, Len(keys))

\* a del() that does not wait for the callback: it issues the next batch
\* and, when keys are left, the one after it as well
DelEager(keys) ==
  /\ fileKeys' = SpliceLeft(SpliceLeft(keys))
  /\ IF SpliceTaken(keys) = <<>>
     THEN fetchPc' = "deleted" /\ UNCHANGED batches
     ELSE /\ fetchPc' = "deleting"
          /\ batches' = IF SpliceLeft(keys) = <<>>
                        THEN Append(batches, SpliceTaken(keys))
                        ELSE Append(Append(batches, SpliceTaken(keys)),
                                    SpliceTaken(SpliceLeft(keys)))

\* del(): take the next batch off the array; stop when it is empty, else
\* issue the batch call
Del(keys) ==
  /\ fileKeys' = SpliceLeft(keys)
  /\ IF SpliceTaken(keys) = <<>>
     THEN fetchPc' = "deleted" /\ UNCHANGED batches
     ELSE fetchPc' = "deleting" /\ batches' = Append(batches, SpliceTaken(keys))

\* .then(() => { this.deleteFiles(files) }) after the listing resolved
ThenDelete ==
  /\ fetchPc = "listed" /\ ~uncaught
  /\ deleteArg' = <<fileKeys>>
  /\ Del(fileKeys)
  /\ UNCHANGED <<listCalls, listAnswers, batchAnswers, listErrLogged, delErrLogged>>
  /\ UNCHANGED <<poolVars, uncaught, fnVars>>

\* deleteFiles(files) called directly with n keys
DeleteFiles(n) ==
  /\ fetchPc = "idle" /\ ~uncaught
  /\ deleteArg' = <<KeysFrom(0, n)>>
  /\ Del(KeysFrom(0, n))
  /\ UNCHANGED <<listCalls, listAnswers, batchAnswers, listErrLogged, delErrLogged>>
  /\ UNCHANGED <<poolVars, uncaught, fnVars>>

\* `this` inside the batch callback: a plain function in class (strict) code,
\* called by the SDK without a receiver
ThisInBatchCallback == Undefined

\* the batch callback: on err it evaluates this.error(...); then del()
BatchCallback(ans) ==
  /\ fetchPc = "deleting" /\ ~uncaught
  /\ Len(batchAnswers) < Len(batches)
  /\ batchAnswers' = Append(batchAnswers, ans)
  /\ IF ans.err # Null /\ ThisInBatchCallback = Undefined
     THEN uncaught' = TRUE /\ UNCHANGED <<fetchPc, fileKeys, batches, delErrLogged>>
     ELSE /\ delErrLogged' = (delErrLogged \/ ans.err # Null)
          /\ Del(fileKeys)
          /\ UNCHANGED uncaught
  /\ UNCHANGED <<listCalls, listAnswers, deleteArg, listErrLogged>>
  /\ UNCHANGED <<poolVars, fnVars>>

FetchNext ==
  \/ \E prefix \in Prefixes : FetchUploadedFiles(prefix)
  \/ \E resp \in ListResponses(Len(listCalls), Len(fileKeys)) : ListCallback(resp)
  \/ PageHandler
  \/ ListCatch
  \/ ThenDelete
  \/ \E n \in 0..MaxKeys : DeleteFiles(n)
  \/ \E ans \in BatchAnswers : BatchCallback(ans)

DefaultConfig ==
  [parallelCount |-> 2, output |-> <<"o", ".", "j", "s", "o", "n">>,
   bucket |-> DefaultBucket, overrides |-> FALSE]

FetchInit == PoolInit({DefaultConfig}) /\ FetchIdle /\ FnIdle

FetchSpec == FetchInit /\ [][FetchNext]_vars

\* ------------------------------------------------------------ claim helpers
W == config.parallelCount
N == Len(enumerated)
Completed == promise = "resolved"

\* how many entries of a list are about file f
Occurrences(list, f) == Cardinality({ k \in DOMAIN list : list[k].file = f })

AllOutcomesRecorded ==
  \A k \in DOMAIN enumerated :
    Occurrences(results.success, enumerated[k]) + Occurrences(results.fail, enumerated[k]) = 1

\* C1: when start() has completed, stats.success + stats.fail = N and every
\* enumerated file is in exactly one of results.success and results.fail, once
C1_OneOutcomePerFile ==
  Completed =>
    /\ stats.success + stats.fail = N
    /\ Len(results.success) + Len(results.fail) = N
    /\ AllOutcomesRecorded

C1_Witness ==
  /\ Completed /\ W = 2 /\ N = 3
  /\ Len(results.success) = 2 /\ Len(results.fail) = 1

\* C2: in every state of a run with worker count W, the number of upload
\* calls issued and not yet answered, and stats.uploading, are at most W
C2_AtMostWInFlight ==
  phase = "running" =>
    /\ stats.uploading <= W
    /\ Cardinality({ i \in DOMAIN task : task[i].pc = "uploading" }) <= stats.uploading

C2_Witness ==
  /\ phase = "running" /\ W = 2 /\ N = 3
  /\ stats.uploading = 2 /\ Len(puts) = 3
  /\ Cardinality({ i \in DOMAIN task : task[i].pc = "uploading" }) = 2

\* C3: within one run the remote put is issued at most once per enumerated
\* file: no two puts carry the same file, also after a recorded failure
C3_PutAtMostOnce ==
  /\ \A j, k \in DOMAIN puts : j # k => puts[j].file # puts[k].file
  /\ \A k \in DOMAIN puts : \E e \in DOMAIN enumerated : enumerated[e] = puts[k].file
  /\ Len(puts) <= N

C3_Witness ==
  /\ W = 2 /\ N = 3 /\ Len(puts) = 3
  /\ \E k \in DOMAIN results.fail : results.fail[k].file = puts[1].file
  /\ puts[3].slot = puts[1].slot

\* C4: a per-file upload error becomes a Failure outcome of that file only
\* and does not abort the pool: the catch step records the entry and leaves
\* the queue, the other workers and the promise alone; the worker then takes
\* the next queued file; every file is still put; the pool is never stuck
C4_FailureStep ==
  \A i \in DOMAIN task :
    (task[i].pc = "rejected" /\ task'[i] # task[i]) =>
      /\ task'[i].pc = "settled"
      /\ results'.fail = Append(results.fail, [file |-> task[i].file, key |-> task[i].key,
                                               msg |-> task[i].msg])
      /\ results'.success = results.success
      /\ targetFiles' = targetFiles /\ ended' = ended
      /\ phase' = phase /\ promise' = promise
      /\ \A j \in DOMAIN task \ {i} : task'[j] = task[j]

C4_NextFileStep ==
  \A i \in DOMAIN task :
    (task[i].pc = "settled" /\ task'[i] # task[i] /\ targetFiles # <<>>) =>
      /\ task'[i].pc = "uploading"
      /\ task'[i].file = targetFiles[Len(targetFiles)]
      /\ puts' = Append(puts, [token |-> BuildUploadToken(task'[i].key), file |-> task'[i].file,
                               key |-> task'[i].key, slot |-> i, resp |-> <<>>])

C4_FailureDoesNotAbort ==
  /\ [][C4_FailureStep /\ C4_NextFileStep]_vars
  /\ [](Completed => /\ Len(puts) = N
                     /\ \A k \in DOMAIN enumerated : \E q \in DOMAIN puts : puts[q].file = enumerated[k])
  /\ []((phase = "running" /\ W >= 1 /\ ~Completed) => ENABLED PoolStep)

C4_Witness ==
  /\ Completed /\ W = 1 /\ N = 3
  /\ \E k \in DOMAIN results.fail : results.fail[k].file = puts[1].file
  /\ Len(results.success) = 2

\* C5: the pool is declared done exactly once, at the step in which the W-th
\* worker finds the queue empty; then the queue is empty, nothing is in
\* flight and every worker has ended
C5_DoneStep ==
  endCalls' # endCalls =>
    /\ endCalls' = endCalls + 1
    /\ Len(ended') = W /\ Len(ended) < W
    /\ targetFiles = <<>> /\ targetFiles' = <<>>
    /\ promise = "pending" /\ promise' = "resolved"

C5_DoneState ==
  /\ endCalls <= 1
  /\ (endCalls = 1) <=> Completed
  /\ Completed =>
       /\ targetFiles = <<>>
       /\ stats.uploading = 0
       /\ Len(task) = W /\ Len(ended) = W
       /\ \A i \in DOMAIN task : task[i].pc = "ended"
  /\ (\E i \in DOMAIN task : task[i].pc = "uploading") => endCalls = 0
  /\ (phase = "running" /\ W >= 1 /\ Len(ended) = W) => endCalls = 1

C5_DoneExactlyOnce == [][C5_DoneStep]_vars /\ []C5_DoneState

C5_Witness ==
  /\ Completed /\ endCalls = 1 /\ W = 2 /\ N = 3 /\ Len(ended) = 2

\* C6: for W >= 1, if every issued upload call is eventually answered, start()
\* eventually completes: queue drained, all W workers ended, promise resolved
C6_Completes == (phase = "running" /\ W >= 1) ~> (Completed /\ targetFiles = <<>> /\ Len(ended) = W)

C6_Witness ==
  /\ Completed /\ W = 8 /\ N = 3 /\ targetFiles = <<>> /\ Len(ended) = 8

\* C7: a file answered with status 599 and no error text yields the fail
\* entry {file, key, msg: "code: 599"}; with 3 files, W = 2, one such answer
\* and two successes the report holds 2 success entries and that 1 fail entry
Code599 == <<"c", "o", "d", "e", ":", " ", "5", "9", "9">>

Answered(p) == puts[p].resp # <<>>

NoText599(p) ==
  /\ Answered(p)
  /\ puts[p].resp[1].respErr = Null
  /\ puts[p].resp[1].statusCode = 599
  /\ puts[p].resp[1].dataError = <<>>

Answered200(p) ==
  /\ Answered(p)
  /\ puts[p].resp[1].respErr = Null
  /\ puts[p].resp[1].statusCode = 200

Scenario599 ==
  /\ Completed /\ N = 3 /\ W = 2
  /\ \E p \in DOMAIN puts :
       /\ NoText599(p)
       /\ \A q \in DOMAIN puts \ {p} : Answered200(q)

C7_Status599Message ==
  /\ \A k \in DOMAIN results.fail : \A p \in DOMAIN puts :
       (puts[p].file = results.fail[k].file /\ NoText599(p)) =>
         results.fail[k] = [file |-> puts[p].file, key |-> puts[p].key, msg |-> Code599]
  /\ Completed =>
       \A p \in DOMAIN puts : NoText599(p) =>
         /\ Occurrences(results.fail, puts[p].file) = 1
         /\ Occurrences(results.success, puts[p].file) = 0
  /\ Scenario599 =>
       /\ Len(results.success) = 2 /\ Len(results.fail) = 1
       /\ results.fail[1].msg = Code599
       /\ \E p \in DOMAIN puts : NoText599(p) /\ results.fail[1].file = puts[p].file
       /\ writes # <<>> =>
            /\ Len(writes[1].success) = 2 /\ Len(writes[1].fail) = 1
            /\ writes[1].fail[1].msg = Code599
            /\ writes[1].fail[1].file = results.fail[1].file

C7_Witness ==
  /\ Scenario599 /\ NoText599(1)
  /\ writes # <<>>
  /\ results.fail[1].file = AllFiles[3]

\* C8: the report write is issued at most once, only once the run has
\* completed and every enumerated file has its outcome; its data are
\* {success: [{file, key, skipped}], fail: [{file, key, msg}]} with all N
\* outcomes; no write is issued when config.output is falsy
C8_ReportWrittenOnceAtEnd ==
  /\ Len(writes) <= 1
  /\ config.output = <<>> => writes = <<>>
  /\ (Completed /\ config.output # <<>>) => Len(writes) = 1
  /\ writes # <<>> =>
       /\ Completed /\ AllOutcomesRecorded /\ stats.uploading = 0
       /\ DOMAIN writes[1] = {"success", "fail"}
       /\ Len(writes[1].success) = Len(results.success)
       /\ Len(writes[1].fail) = Len(results.fail)
       /\ Len(writes[1].success) + Len(writes[1].fail) = N
       /\ \A k \in DOMAIN writes[1].success :
            /\ DOMAIN writes[1].success[k] = {"file", "key", "skipped"}
            /\ writes[1].success[k].file = results.success[k].file
            /\ writes[1].success[k].key = results.success[k].key
            /\ writes[1].success[k].skipped = JsFalse
       /\ \A k \in DOMAIN writes[1].fail :
            /\ DOMAIN writes[1].fail[k] = {"file", "key", "msg"}
            /\ writes[1].fail[k].file = results.fail[k].file
            /\ writes[1].fail[k].key = results.fail[k].key
            /\ writes[1].fail[k].msg = results.fail[k].msg

C8_Witness ==
  /\ Len(writes) = 1 /\ N = 3
  /\ Len(writes[1].success) = 1 /\ Len(writes[1].fail) = 2

\* C9: a failed report write is logged inside the write callback and is not
\* fatal: no exception leaves the callback
C9_WriteFailureLoggedNotFatal == writeCb = "failed" => (saveErrLogged /\ ~uncaught)

\* C10: when enumeration fails the run is aborted before any upload: start()
\* rejects with the glob error, no put is issued, no worker is spawned and no
\* report is written
C10_EnumerationErrorAborts ==
  /\ rejection # Null => phase = "aborted"
  /\ phase = "aborted" =>
       /\ promise = "rejected" /\ rejection \in GlobErrors
       /\ puts = <<>> /\ task = <<>> /\ ended = <<>>
       /\ writes = <<>> /\ writeCb = "none" /\ endCalls = 0
       /\ stats.uploading = 0
       /\ ~ENABLED PoolStep

C10_Witness == phase = "aborted" /\ promise = "rejected" /\ W = 2

\* ------------------------------------------------ list and delete: claims
ListOk(a) == a.err = Null /\ a.statusCode = 200

ListingDone == fetchPc \in {"listed", "deleting", "deleted"} /\ listCalls # <<>>

\* C11: pagination stops at the first empty marker: the first list call
\* carries the empty marker, each later one the marker the previous answer
\* returned, no call follows an answer with an empty marker, and a listing
\* that ended after k answers made exactly k calls
C11_PaginationStopsAtEmptyMarker ==
  /\ Len(listAnswers) <= Len(listCalls) /\ Len(listCalls) <= Len(listAnswers) + 1
  /\ listCalls # <<>> => listCalls[1].marker = <<>>
  /\ \A j \in DOMAIN listCalls : j > 1 =>
       /\ ListOk(listAnswers[j - 1])
       /\ listAnswers[j - 1].marker # <<>>
       /\ listCalls[j].marker = listAnswers[j - 1].marker
  /\ \A j \in DOMAIN listAnswers :
       (ListOk(listAnswers[j]) /\ listAnswers[j].marker = <<>>) => Len(listCalls) = j
  /\ ListingDone =>
       /\ Len(listCalls) = Len(listAnswers)
       /\ listAnswers[Len(listAnswers)].marker = <<>>
       /\ \A j \in 1..(Len(listAnswers) - 1) : listAnswers[j].marker # <<>>

C11_Witness ==
  /\ fetchPc = "listed" /\ Len(listCalls) = 3 /\ Len(listAnswers) = 3
  /\ listAnswers[1].marker = <<"m", "1">> /\ listAnswers[2].marker = <<"m", "2">>
  /\ listAnswers[3].marker = <<>>
  /\ listCalls[2].marker = <<"m", "1">> /\ listCalls[3].marker = <<"m", "2">>

\* the keys of all answered pages, in page order
RECURSIVE PageKeys(_)
PageKeys(answers) ==
  IF answers = <<>> THEN <<>>
  ELSE PageKeys(SubSeq(answers, 1, Len(answers) - 1)) \o answers[Len(answers)].items

\* C12: no batch call is issued before the list call that returns the empty
\* marker is answered, and deleteFiles gets exactly the keys of all pages, in
\* page order, each once
C12_CollectBeforeDelete ==
  listCalls # <<>> =>
    /\ (batches # <<>> \/ deleteArg # <<>>) =>
         /\ Len(listAnswers) = Len(listCalls)
         /\ ListOk(listAnswers[Len(listAnswers)])
         /\ listAnswers[Len(listAnswers)].marker = <<>>
    /\ deleteArg # <<>> => deleteArg[1] = PageKeys(listAnswers)
    /\ batches # <<>> => deleteArg # <<>>

C12_Witness ==
  /\ Len(listAnswers) = 3 /\ deleteArg # <<>> /\ Len(deleteArg[1]) = 101
  /\ Len(batches) = 2
  /\ Len(listAnswers[1].items) = 50 /\ Len(listAnswers[2].items) = 1

\* C13: deleteFiles submits n keys in consecutive batches of at most 100:
\* batch i holds keys 100(i-1)+1 .. min(100 i, n) in order, no batch is
\* empty, and when every batch was answered without error there are
\* ceil(n / 100) batches (250 keys: 100, 100, 50; 0 keys: no call)
C13_BatchesOfHundred ==
  deleteArg # <<>> =>
    LET arg == deleteArg[1]
        n == Len(arg)
    IN /\ \A i \in DOMAIN batches :
            /\ batches[i] # <<>>
            /\ Len(batches[i]) <= 100
            /\ batches[i] = SubSeq(arg, 100 * (i - 1) + 1, IF 100 * i < n THEN 100 * i ELSE n)
       /\ \A i \in DOMAIN batches : i < Len(batches) => Len(batches[i]) = 100
       /\ fetchPc = "deleted" =>
            /\ Len(batches) = (n + 99) \div 100
            /\ fileKeys = <<>>
            /\ n = 250 => <<Len(batches[1]), Len(batches[2]), Len(batches[3])>> = <<100, 100, 50>>
            /\ n = 0 => batches = <<>>

C13_Witness ==
  /\ fetchPc = "deleted" /\ Len(deleteArg[1]) = 250
  /\ Len(batches) = 3 /\ Len(batches[3]) = 50
  /\ \A i \in DOMAIN batchAnswers : batchAnswers[i].err = Null

\* C14: a batch-level error is logged and the loop goes on: no exception
\* leaves the callback and, when keys are left, the next batch is submitted
C14_BatchErrorContinues ==
  \A i \in DOMAIN batchAnswers :
    batchAnswers[i].err # Null =>
      /\ delErrLogged /\ ~uncaught
      /\ Len(deleteArg[1]) > 100 * i => Len(batches) > i

\* C15 as stated: after a failed list call the flow continues to the next
\* page and is never aborted
C15_ListErrorContinues ==
  \A j \in DOMAIN listAnswers :
    ~ListOk(listAnswers[j]) => fetchPc # "rejected"

\* C15 as amended: a failed list call stops the flow: it is the last list
\* call, the listing promise is rejected, deleteFiles is never called, and
\* only a transport error is printed
C15_ListErrorAborts ==
  /\ \A j \in DOMAIN listAnswers :
       ~ListOk(listAnswers[j]) =>
         /\ j = Len(listAnswers) /\ Len(listCalls) = j
         /\ fetchPc \in {"failed", "rejected"}
         /\ batches = <<>> /\ deleteArg = <<>>
         /\ listErrLogged = (IF listAnswers[j].err # Null THEN 1 ELSE 0)
         /\ fetchPc = "failed" => (uncaught \/ ENABLED ListCatch)
  /\ fetchPc = "rejected" => ~ENABLED FetchNext

C15_Witness ==
  /\ fetchPc = "rejected" /\ Len(listAnswers) = 2 /\ Len(fileKeys) = 50
  /\ listAnswers[2].statusCode = 599

\* ------------------------------------------------ constructor: this._config
\* A JS object over the fields below is a record; a property the object does
\* not have holds Absent, so that { a: undefined } and {} stay different, as
\* they are for object spread.
Absent == <<"absent">>

Fields == {"accessKey", "secretKey", "bucket", "envFile", "cwd"}

\* o[k] as JavaScript reads it
Get(o, k) == IF o[k] = Absent THEN Undefined ELSE o[k]

EmptyObject == [k \in Fields |-> Absent]

\* { ...a, ...b }
Merge(a, b) == [k \in Fields |-> IF b[k] # Absent THEN b[k] ELSE a[k]]

DEFAULTS ==
  [accessKey |-> <<>>,
   secretKey |-> <<>>,
   bucket |-> DefaultBucket,
   envFile |-> <<".", "q", "i", "n", "i", "u">>,
   cwd |-> Cwd]

OtherCwd == <<"/", "x">>
OtherEnvFile == <<".", "e">>

\* the config objects passed to the constructor
ExplicitConfigs ==
  [accessKey : {Absent, Undefined, <<>>, <<"A">>},
   secretKey : {Absent, <<"S">>},
   bucket : {Absent, OtherBucket},
   envFile : {Absent, Undefined, <<>>, JsFalse, OtherEnvFile},
   cwd : {Absent, OtherCwd}]

\* the places an env file can be read from
EnvPaths ==
  << PathResolve(Cwd, DEFAULTS.envFile), PathResolve(Cwd, OtherEnvFile),
     PathResolve(OtherCwd, DEFAULTS.envFile), PathResolve(OtherCwd, OtherEnvFile) >>

EnvKeys == {"accessKey", "secretKey", "bucket"}

\* the disk: which env files exist, and which keys the existing ones define
FileSystems == [exists : SUBSET (1..Len(EnvPaths)), defines : SUBSET EnvKeys]

\* the value the env file at EnvPaths[p] gives to key k
EnvValue(k, p) ==
  <<(IF k = "accessKey" THEN "a" ELSE IF k = "secretKey" THEN "s" ELSE "b"), Digits[p + 1]>>

PathIndex(path) == CHOOSE p \in 1..Len(EnvPaths) : EnvPaths[p] = path

\* dotEnv.config({ path }).parsed, for a file that exists
Parsed(fs, path) ==
  [k \in Fields |-> IF k \in fs.defines THEN EnvValue(k, PathIndex(path)) ELSE Absent]

\* the env file is applied last and wins over the explicit fields
ConstructorEnvWins(cfg, fs) ==
  LET cwd == IF Truthy(Get(cfg, "cwd")) THEN cfg.cwd ELSE DEFAULTS.cwd
      envFile == IF Get(cfg, "envFile") = Undefined THEN DEFAULTS.envFile ELSE cfg.envFile
      path == PathResolve(cwd, envFile)
  IN IF ~Truthy(envFile)
     THEN [threw |-> FALSE, loaded |-> <<>>, config |-> Merge(Merge(DEFAULTS, cfg), EmptyObject)]
     ELSE IF PathIndex(path) \notin fs.exists
     THEN [threw |-> TRUE, loaded |-> <<path>>, config |-> EmptyObject]
     ELSE [threw |-> FALSE, loaded |-> <<path>>,
           config |-> Merge(Merge(DEFAULTS, cfg), Parsed(fs, path))]

\* new Uploader(cfg) on a disk fs: whether loadEnv threw, the paths read, and
\* this._config
Constructor(cfg, fs) ==
  LET cwd == IF Truthy(Get(cfg, "cwd")) THEN cfg.cwd ELSE DEFAULTS.cwd
      envFile == IF Get(cfg, "envFile") = Undefined THEN DEFAULTS.envFile ELSE cfg.envFile
      path == PathResolve(cwd, envFile)
  IN IF ~Truthy(envFile)
     THEN [threw |-> FALSE, loaded |-> <<>>, config |-> Merge(Merge(DEFAULTS, EmptyObject), cfg)]
     ELSE IF PathIndex(path) \notin fs.exists
     THEN [threw |-> TRUE, loaded |-> <<path>>, config |-> EmptyObject]
     ELSE [threw |-> FALSE, loaded |-> <<path>>,
           config |-> Merge(Merge(DEFAULTS, Parsed(fs, path)), cfg)]

Construct ==
  /\ fnName = "constructor"
  /\ fnOut = <<>>
  /\ fnOut' = <<Constructor(fnIn.config, fnIn.fs)>>
  /\ UNCHANGED <<poolVars, uncaught, fetchVars, fnName, fnIn>>

ConfigNext == Construct

ConfigInit ==
  /\ PoolInit({DefaultConfig})
  /\ FetchIdle
  /\ fnName = "constructor"
  /\ fnIn \in [config : ExplicitConfigs, fs : FileSystems]
  /\ fnOut = <<>>

ConfigSpec == ConfigInit /\ [][ConfigNext]_vars

Constructed == fnName = "constructor" /\ fnOut # <<>>

\* the env file setting the claim speaks of: the explicit one unless it is
\* undefined or missing
EnvFileSetting(cfg) ==
  IF cfg.envFile \in {Absent, Undefined} THEN DEFAULTS.envFile ELSE cfg.envFile

\* C16: the effective configuration is a layered merge: every field holds the
\* explicit constructor value when the field is supplied, otherwise the env
\* file's value when the file defines it, otherwise the default; with a falsy
\* envFile no env file is read and only explicit values and defaults apply.
C16_LayeredMerge ==
  Constructed =>
    LET cfg == fnIn.config
        fs == fnIn.fs
        out == fnOut[1]
        setting == EnvFileSetting(cfg)
        falsy == setting \in {<<>>, JsFalse, Null}
    IN /\ falsy =>
            /\ ~out.threw
            /\ out.loaded = <<>>
            /\ \A k \in Fields :
                 out.config[k] = IF cfg[k] # Absent THEN cfg[k] ELSE DEFAULTS[k]
       /\ (~falsy /\ ~out.threw) =>
            /\ Len(out.loaded) = 1
            /\ \A k \in Fields :
                 out.config[k] =
                   IF cfg[k] # Absent THEN cfg[k]
                   ELSE IF k \in fs.defines THEN EnvValue(k, PathIndex(out.loaded[1]))
                   ELSE DEFAULTS[k]

\* explicit accessKey, secretKey from the env file, bucket from the defaults
C16_Witness ==
  /\ Constructed
  /\ fnIn.config.accessKey = <<"A">>
  /\ fnIn.config.secretKey = Absent
  /\ fnIn.config.bucket = Absent
  /\ fnIn.fs.defines = {"accessKey", "secretKey"}
  /\ ~fnOut[1].threw
  /\ fnOut[1].config.accessKey = <<"A">>
  /\ fnOut[1].config.secretKey = EnvValue("secretKey", 1)
  /\ fnOut[1].config.bucket = DEFAULTS.bucket

\* ------------------------------------------------------------- key mapping
\* config.cwd and config.base values explored
Cwds == { Cwd, <<"/", "x", "/">> }
Bases == { BaseDir, <<"d", "/">>, <<"/", "w", "/", "d">>, <<>> }

\* paths of files below the base directory, relative to it
RelPaths ==
  { <<"a">>,
    <<"a", "/", "b", ".", "j", "s">>,
    <<"d", "/", "a">>,
    <<"w", "/", "d", "/", "a">>,
    <<"s", "/", "w", "/", "d", "/", "c">>,
    <<"s", "/", "x", "/", "d", "/", "c">> }

\* the key of the file base + "/" + r
MapKey ==
  /\ fnName = "key"
  /\ fnOut = <<>>
  /\ LET base == ResolveBaseOf(fnIn.cwd, fnIn.base)
     IN fnOut' = <<KeyMap(base \o fnIn.r, base)>>
  /\ UNCHANGED <<poolVars, uncaught, fetchVars, fnName, fnIn>>

\* the same mapping applied to the key just computed
MapAgain ==
  /\ fnName = "key"
  /\ Len(fnOut) = 1
  /\ fnOut' = fnOut \o <<KeyMap(fnOut[1], ResolveBaseOf(fnIn.cwd, fnIn.base))>>
  /\ UNCHANGED <<poolVars, uncaught, fetchVars, fnName, fnIn>>

KeyNext == MapKey \/ MapAgain

KeyInit ==
  /\ PoolInit({DefaultConfig})
  /\ FetchIdle
  /\ fnName = "key"
  /\ fnIn \in [cwd : Cwds, base : Bases, r : RelPaths]
  /\ fnOut = <<>>

KeySpec == KeyInit /\ [][KeyNext]_vars

\* the prefix-correct half: the key of base + "/" + r is r
KeyPrefixCorrect == (fnName = "key" /\ Len(fnOut) >= 1) => fnOut[1] = fnIn.r

\* C17: key mapping is prefix-correct and idempotent: the key of the file
\* base + "/" + r is r, and mapping an already mapped key with the same base
\* returns it unchanged.
C17_KeyMappingIdempotent ==
  fnName = "key" =>
    /\ Len(fnOut) >= 1 => fnOut[1] = fnIn.r
    /\ Len(fnOut) = 2 => fnOut[2] = fnOut[1]

\* ------------------------------------------------------------ upload tokens
\* runs with either bucket and either overrides setting
TokenConfigs ==
  [parallelCount : {1, 2}, output : {DefaultConfig.output},
   bucket : {DefaultBucket, OtherBucket}, overrides : BOOLEAN]

TokenInit == PoolInit(TokenConfigs) /\ FetchIdle /\ FnIdle

TokenSpec == TokenInit /\ [][Next]_vars

\* the outcome entries recorded for a file
OutcomesOf(file) ==
  { results.success[j] : j \in { x \in DOMAIN results.success : results.success[x].file = file } }
  \cup { results.fail[j] : j \in { x \in DOMAIN results.fail : results.fail[x].file = file } }

\* C18: every put carries a token built for exactly that upload: its scope is
\* "<bucket>:<key>" for the key passed to the put and recorded in the outcome,
\* and its insertOnly is 1 exactly when overrides is false, 0 when it is true.
C18_TokenPerPut ==
  \A p \in DOMAIN puts :
    /\ puts[p].token.scope = config.bucket \o <<":">> \o puts[p].key
    /\ \A e \in OutcomesOf(puts[p].file) : e.key = puts[p].key
    /\ config.overrides => puts[p].token.insertOnly = 0
    /\ ~config.overrides => puts[p].token.insertOnly = 1

\* a run without overrides on the other bucket: two puts answered and
\* recorded, each with an insert-only token scoped to its own key
C18_Witness ==
  /\ ~config.overrides
  /\ config.bucket = OtherBucket
  /\ Len(puts) = 2
  /\ puts[1].key # puts[2].key
  /\ \A p \in DOMAIN puts :
       /\ puts[p].token.insertOnly = 1
       /\ puts[p].token.scope = OtherBucket \o <<":">> \o puts[p].key
       /\ OutcomesOf(puts[p].file) # {}

\* ------------------------------------------------------- a call that hangs
\* the callback of chain i's putFile call is never going to be invoked; there
\* is no timer and no cancellation that could end the call from this side
Hang(i) ==
  /\ phase = "running" /\ ~uncaught
  /\ task[i].pc = "uploading"
  /\ \A j \in DOMAIN task : task[j].pc # "hung"
  /\ task' = [task EXCEPT ![i].pc = "hung"]
  /\ UNCHANGED <<config, phase, promise, rejection, enumerated, targetFiles, ended,
                 results, stats, puts, endCalls, writes, writeCb, saveErrLogged, uncaught>>
  /\ UNCHANGED aux

HangNext ==
  \/ Next
  \/ \E i \in DOMAIN task : Hang(i)

\* at most one call hangs; every other issued call is eventually answered
\* and every queued promise reaction eventually runs
\* runs of 1, 2 and 3 workers that write the report
HangConfigs ==
  [parallelCount : {1, 2, 3}, output : {DefaultConfig.output},
   bucket : {DefaultBucket}, overrides : {FALSE}]

HangInit == PoolInit(HangConfigs) /\ FetchIdle /\ FnIdle

HangSpec ==
  /\ HangInit
  /\ [][HangNext]_vars
  /\ WF_vars(\E i \in DOMAIN task, resp \in Responses : PutCallback(i, resp))
  /\ WF_vars(\E i \in DOMAIN task : ThenHandler(i) \/ CatchHandler(i) \/ RunNext(i))

HungSlots == { i \in DOMAIN task : task[i].pc = "hung" }
Hung == HungSlots # {}
HungFile == task[CHOOSE i \in HungSlots : TRUE].file

\* the stalled run: the promise is pending, end() has not run, no report
StalledRun ==
  Hung => /\ promise = "pending"
          /\ endCalls = 0
          /\ writes = <<>>
          /\ Len(ended) < W

\* a hung slot stays hung
StaysHung == \A i \in DOMAIN task : task[i].pc = "hung" => task'[i].pc = "hung"

\* the other workers have drained the queue, recorded one outcome for every
\* other file, and ended; only the hung call is in flight
OthersDrained ==
  /\ Hung
  /\ targetFiles = <<>>
  /\ Len(ended) = W - 1
  /\ stats.uploading = 1
  /\ \A k \in DOMAIN enumerated :
       Occurrences(results.success, enumerated[k]) + Occurrences(results.fail, enumerated[k])
         = IF enumerated[k] = HungFile THEN 0 ELSE 1

\* C19 as stated: once one upload call hangs, the other W-1 workers drain the
\* queue and record an outcome for every other file, while the hung slot never
\* ends, start() never resolves and the report is never written.
C19_HungStallsOnlyItsSlot ==
  /\ []StalledRun
  /\ [][StaysHung]_vars
  /\ Hung ~> OthersDrained

\* C19, for W >= 2: once one upload call hangs, the other W-1 workers drain
\* the queue and record an outcome for every other file; for every W the hung
\* slot never ends, start() never resolves and the report is never written.
C19_HungStallsOnlyItsSlotTwoWorkers ==
  /\ []StalledRun
  /\ [][StaysHung]_vars
  /\ (Hung /\ W >= 2) ~> OthersDrained

C19_Witness ==
  /\ W = 2 /\ N = 3
  /\ OthersDrained
  /\ Len(results.success) + Len(results.fail) = 2
  /\ promise = "pending" /\ writes = <<>>

\* ---------------------------------------------------------------- counters
CountersConsistent ==
  phase = "running" =>
    /\ stats.total = N
    /\ stats.uploading >= 0
    /\ stats.success = Len(results.success)
    /\ stats.fail = Len(results.fail)
    /\ Len(targetFiles) + stats.uploading + stats.success + stats.fail = stats.total

CountersStep ==
  phase = "running" =>
    /\ stats'.total = stats.total
    /\ stats'.success >= stats.success
    /\ stats'.fail >= stats.fail

\* C20: in every state of a run the counters are consistent: stats.total never
\* changes after enumeration, stats.uploading >= 0, stats.success and
\* stats.fail never decrease and equal the lengths of results.success and
\* results.fail, and queued + uploading + success + fail = total.
C20_CountersConsistent == []CountersConsistent /\ [][CountersStep]_vars

\* mid-run: one file queued, one in flight, one succeeded, one failed
C20_Witness ==
  /\ phase = "running" /\ N = 3
  /\ Len(targetFiles) = 1 /\ stats.uploading = 1
  /\ stats.success + stats.fail = 1
  /\ stats.total = 3

\* ------------------------------------------------- outcomes of every answer
\* more answers one putFile call can get: an error with an empty message, an
\* error that comes with status 200, other 2xx statuses, a body error text
\* with and without success
AllResponses ==
  Responses \cup
  { [respErr |-> <<>>, statusCode |-> 0, dataError |-> <<>>],
    [respErr |-> <<"r", "e", "s", "e", "t">>, statusCode |-> 200, dataError |-> <<>>],
    [respErr |-> Null, statusCode |-> 201, dataError |-> <<>>],
    [respErr |-> Null, statusCode |-> 298, dataError |-> <<"p", "a", "r", "t">>],
    [respErr |-> Null, statusCode |-> 200, dataError |-> <<"o", "d", "d">>],
    [respErr |-> Null, statusCode |-> 401, dataError |-> <<"b", "a", "d">>] }

\* one worker, so that the answers of a run come in the order of the puts
OutcomeConfigs ==
  [parallelCount : {1}, output : {DefaultConfig.output},
   bucket : {DefaultBucket}, overrides : {FALSE}]

OutcomeInit == PoolInit(OutcomeConfigs) /\ FetchIdle /\ FnIdle

OutcomeNext ==
  \/ Start
  \/ \E err \in GlobErrors : GlobFail(err)
  \/ \E files \in FileLists : GlobDone(files)
  \/ \E i \in DOMAIN task, resp \in AllResponses : PutCallback(i, resp)
  \/ \E i \in DOMAIN task : ThenHandler(i)
  \/ \E i \in DOMAIN task : CatchHandler(i)
  \/ \E i \in DOMAIN task : RunNext(i)
  \/ \E err \in WriteErrors \cup {Null} : WriteCallback(err)

OutcomeSpec == OutcomeInit /\ [][OutcomeNext]_vars

\* the entries of a list that are about file f
EntriesOf(list, f) == { list[k] : k \in { x \in DOMAIN list : list[x].file = f } }

\* the outcome of put p has been recorded
Recorded(p) ==
  EntriesOf(results.success, puts[p].file) \cup EntriesOf(results.fail, puts[p].file) # {}

\* the failure message the claim gives for an answer
ClaimedMsg(r) ==
  IF r.respErr # Null THEN r.respErr
  ELSE IF r.dataError # <<>> THEN r.dataError
  ELSE <<"c", "o", "d", "e", ":", " ">> \o NumToStr(r.statusCode)

\* C21: an upload is recorded as success, with skipped false, exactly when
\* its answer has no transport error and status 200; every other answer,
\* other 2xx statuses included, is recorded as a failure whose message is the
\* error's message, else the body's error text, else "code: <status>".
C21_SuccessExactlyOn200 ==
  \A p \in DOMAIN puts :
    (Answered(p) /\ Recorded(p)) =>
      LET r == puts[p].resp[1]
          f == puts[p].file
          ok == r.respErr = Null /\ r.statusCode = 200
      IN /\ ok => /\ EntriesOf(results.success, f)
                       = {[file |-> f, key |-> puts[p].key, skipped |-> JsFalse]}
                  /\ EntriesOf(results.fail, f) = {}
         /\ ~ok => /\ EntriesOf(results.fail, f)
                        = {[file |-> f, key |-> puts[p].key, msg |-> ClaimedMsg(r)]}
                   /\ EntriesOf(results.success, f) = {}

\* three files answered 201, 401 with a body error text, and 200 with a body
\* error text: two failures "code: 201" and "bad", one success
C21_Witness ==
  /\ Len(puts) = 3
  /\ \A p \in DOMAIN puts : Answered(p) /\ Recorded(p)
  /\ \E p \in DOMAIN puts :
       puts[p].resp[1].statusCode = 201
       /\ \E e \in EntriesOf(results.fail, puts[p].file) :
            e.msg = <<"c", "o", "d", "e", ":", " ", "2", "0", "1">>
  /\ \E p \in DOMAIN puts :
       puts[p].resp[1].statusCode = 401
       /\ \E e \in EntriesOf(results.fail, puts[p].file) : e.msg = <<"b", "a", "d">>
  /\ \E p \in DOMAIN puts :
       puts[p].resp[1].statusCode = 200 /\ puts[p].resp[1].dataError # <<>>
       /\ EntriesOf(results.success, puts[p].file) # {}

\* ------------------------------------------------------ the prefix guard
\* C22: fetchUploadedFiles without a prefix (missing or empty) returns at
\* once and leaves the remote alone: no list call carries a missing or empty
\* prefix, and after such a call there is no list call, no batch call and
\* nothing left to run.
C22_NoPrefixNoRemoteCall ==
  /\ \A j \in DOMAIN listCalls : listCalls[j].prefix \notin {Undefined, <<>>}
  /\ fetchPc = "returned" =>
       /\ listCalls = <<>> /\ listAnswers = <<>>
       /\ deleteArg = <<>> /\ batches = <<>> /\ batchAnswers = <<>>
       /\ ~ENABLED FetchNext

C22_Witness == fetchPc = "returned" /\ listCalls = <<>> /\ batches = <<>>

\* ------------------------------------------------------------ sequentiality
ListInFlight == Len(listCalls) - Len(listAnswers)
BatchInFlight == Len(batches) - Len(batchAnswers)

\* a step that issues a batch call finds every earlier batch answered
BatchIssueStep == Len(batches') > Len(batches) =>
                    /\ Len(batches') = Len(batches) + 1
                    /\ Len(batchAnswers') = Len(batches)

\* a step that issues a list call finds every earlier list call answered
ListIssueStep == Len(listCalls') > Len(listCalls) =>
                   /\ Len(listCalls') = Len(listCalls) + 1
                   /\ Len(listAnswers') = Len(listCalls)

\* C23: the list-and-delete flow is strictly sequential: at most one list
\* call and at most one batch call is in flight at any time, and batch i+1 is
\* issued only after the callback of batch i has run.
C23_StrictlySequential ==
  /\ [](ListInFlight \in {0, 1} /\ BatchInFlight \in {0, 1})
  /\ [][BatchIssueStep /\ ListIssueStep]_vars

\* three pages listed, the first batch answered and the second in flight
C23_Witness ==
  /\ Len(listCalls) = 3 /\ ListInFlight = 0
  /\ Len(batches) = 2 /\ Len(batchAnswers) = 1

\* --------------------------------------------------- more workers than files
\* the workers beyond the N-th found the queue empty on their first run() and
\* ended without a put; no more than N uploads are in flight; end() ran at
\* most once, and only with every outcome recorded
SurplusWorkersIdle ==
  (phase = "running" /\ W > N) =>
    /\ Len(task) = W
    /\ Len(ended) >= W - N
    /\ \A i \in (N + 1)..W : task[i] = IdleTask
    /\ \A p \in DOMAIN puts : puts[p].slot \in 1..N
    /\ Len(puts) = N
    /\ stats.uploading <= N
    /\ Cardinality({ i \in DOMAIN task : task[i].pc = "uploading" }) <= N
    /\ endCalls <= 1
    /\ (endCalls = 1) = Completed
    /\ Completed => (AllOutcomesRecorded /\ Len(results.success) + Len(results.fail) = N)
    /\ N = 0 => /\ Completed
                /\ results = [success |-> <<>>, fail |-> <<>>]
                /\ puts = <<>>

\* C24: with more workers than files (N = 0 included) the surplus W - N
\* workers end on their first step without an upload, at most N uploads are
\* in flight, the run completes, completion is signalled exactly once and
\* after all N outcomes are recorded, and for N = 0 start() completes with
\* both outcome lists empty and no remote call.
C24_MoreWorkersThanFiles ==
  /\ []SurplusWorkersIdle
  /\ (phase = "running" /\ W > N) ~> (Completed /\ endCalls = 1 /\ AllOutcomesRecorded)

\* eight workers and two files, completed: six ended at once, two after
\* their upload
C24_Witness ==
  /\ Completed /\ W = 8 /\ N = 2
  /\ Len(puts) = 2 /\ Len(ended) = 8 /\ endCalls = 1
  /\ Len(results.success) + Len(results.fail) = 2

\* ------------------------------------------------------------- no workers
\* C25: with parallelCount = 0 no worker is spawned: start() issues no
\* upload, its promise never resolves and the report is never written, also
\* when the enumerated file list is empty.
C25_ZeroWorkersNeverComplete ==
  W = 0 =>
    /\ task = <<>> /\ puts = <<>>
    /\ stats.uploading = 0
    /\ ended = <<>> /\ endCalls = 0
    /\ promise # "resolved"
    /\ writes = <<>> /\ writeCb = "none"
    /\ phase = "running" =>
         /\ promise = "pending"
         /\ targetFiles = enumerated
         /\ ~ENABLED Next

\* no workers and an empty file list: the run is started and stays pending
C25_Witness ==
  /\ W = 0 /\ phase = "running" /\ N = 0
  /\ promise = "pending" /\ task = <<>> /\ writes = <<>>

====
